---- MODULE Spec2Model ----
(***************************************************************************)
(* cc-zol auth server: the user store (auth/database.py, a MongoDB         *)
(* collection of schemaless documents) and the HTTP handlers that use it   *)
(* (api/auth_routes.py, api/admin_routes.py).                              *)
(*                                                                         *)
(* Strings are sequences of one-character strings, so that lower(),        *)
(* strip(), slicing and formatting are computed as the code computes them. *)
(* A document is a function from field names to values; a field that the   *)
(* code never wrote is absent from its domain.  Python's None is NoneStr   *)
(* in a string field and NoneTime in a timestamp field.                    *)
(* Every handler is cut at its awaits on the store: one action per store   *)
(* operation, the synchronous code after a read running with that read.    *)
(***************************************************************************)
EXTENDS Integers, Sequences, FiniteSets, TLC

VARIABLES
    users,      \* the users collection: a set of documents
    now,        \* datetime.utcnow(), in minutes
    pc,         \* per client: where its request stands
    call,       \* per client: the locals of its request and its response
    ntok,       \* number of values drawn so far by secrets.token_hex
    consumed,   \* history: per email, the code and its expiry of the
                \* last completed successful verification since the last code
                \* request (NotConsumed if none)
    procs,      \* the uvicorn processes spawned so far, by PID
    SERVER_PID_FILE,    \* ~/.cc-zol/server.pid: a PID or NoFile
    SERVER_PORT_FILE,   \* ~/.cc-zol/server.port: a port or NoFile
    mgr         \* per cc-zol invocation: where its ServerManager call stands

svars == <<procs, SERVER_PID_FILE, SERVER_PORT_FILE, mgr>>
vars == <<users, now, pc, call, ntok, consumed, procs, SERVER_PID_FILE,
          SERVER_PORT_FILE, mgr>>

-----------------------------------------------------------------------------
(* Bounds *)

MaxTime == 11       \* the clock stops here
MaxGen == 2         \* tokens that secrets.token_hex is asked for
NumClients == 2     \* concurrent requests in SpecConc
MaxProcs == 3       \* uvicorn processes that subprocess.Popen is asked for
NumManagers == 2    \* concurrent cc-zol invocations in SpecServer

(* Program constants *)

VERIFICATION_CODE_EXPIRY_MINUTES == 10
TOKEN_LENGTH == 64
BEARER_PREFIX_LEN == 7

-----------------------------------------------------------------------------
(* Values *)

NoneStr == <<"None">>
NoneTime == -1
EmptyStr == <<>>
Raised == <<"Exception">>

ADMIN_PASSWORD == "admin"

\* The instants at which the clock is sampled: around every multiple of the
\* expiry, so that "exactly at expiry" and "one past expiry" both happen.
Instants == {t \in 0..MaxTime : t % VERIFICATION_CODE_EXPIRY_MINUTES <= 1}

RawEmails == {<<"a">>, <<"A">>, <<"b">>}

\* what secrets.randbelow(1000000) may return
CodeDraws == {42, 123456}

\* tokens an administrator types in
AdminTokens == {EmptyStr, <<"a", "b", "c", "1", "2", "3">>}

AdminPasswords == {ADMIN_PASSWORD, "guess"}

-----------------------------------------------------------------------------
(* str methods and formatting *)

\* a faulty variant of lower: the letters are left as they are
lower_asis(s) == s

LowerChar(c) ==
    CASE c = "A" -> "a"
      [] c = "B" -> "b"
      [] c = "E" -> "e"
      [] c = "R" -> "r"
      [] OTHER -> c

lower(s) == [i \in 1..Len(s) |-> LowerChar(s[i])]

RECURSIVE lstrip(_)
lstrip(s) == IF s # <<>> /\ Head(s) = " " THEN lstrip(Tail(s)) ELSE s

RECURSIVE rstrip(_)
rstrip(s) ==
    IF s # <<>> /\ s[Len(s)] = " " THEN rstrip(SubSeq(s, 1, Len(s) - 1)) ELSE s

strip(s) == rstrip(lstrip(s))

startswith(s, prefix) ==
    Len(s) >= Len(prefix) /\ SubSeq(s, 1, Len(prefix)) = prefix

Digits == <<"0", "1", "2", "3", "4", "5", "6", "7", "8", "9",
            "a", "b", "c", "d", "e", "f">>

\* n with its k lowest digits in the given base dropped
RECURSIVE shift(_, _, _)
shift(n, base, k) == IF k = 0 \/ n = 0 THEN n ELSE shift(n \div base, base, k - 1)

\* n written in the given base, zero-padded on the left to width characters
zfill(n, base, width) ==
    [i \in 1..width |-> Digits[(shift(n, base, width - i) % base) + 1]]

\* f"{secrets.randbelow(1000000):06d}" for the draw r
_generate_verification_code(r) == zfill(r, 10, 6)

\* secrets.token_hex(TOKEN_LENGTH // 2) for the draw r
_generate_token(r) == zfill(r, 16, 2 * (TOKEN_LENGTH \div 2))

\* Python truthiness of an Optional[str]
Truthy(s) == s # NoneStr /\ s # EmptyStr

-----------------------------------------------------------------------------
(* Documents and the pydantic User model *)

Get(doc, k, default) == IF k \in DOMAIN doc THEN doc[k] ELSE default

\* User(**doc): absent fields take the model's defaults
User(doc) ==
    [email |-> doc["email"],
     verification_code |-> Get(doc, "verification_code", NoneStr),
     verification_code_expires |-> Get(doc, "verification_code_expires", NoneTime),
     intercept_token |-> Get(doc, "intercept_token", NoneStr),
     verified |-> Get(doc, "verified", FALSE),
     active |-> Get(doc, "active", TRUE),
     created_at |-> Get(doc, "created_at", 0),
     last_logged_in |-> Get(doc, "last_logged_in", NoneTime)]

\* users.find({"email": email})
ByEmail(coll, email) == {d \in coll : d["email"] = email}

\* "$set": fields of upd replace or extend those of doc
SetFields(doc, upd) == upd @@ doc

\* a faulty variant of UpdateOne: the filter on the email is dropped
UpdateOne_all(coll, email, upd) == {{SetFields(d, upd) : d \in coll}}

\* a faulty variant of UpdateOne: a document is inserted when none matches
UpdateOne_upsert(coll, email, upd) ==
    IF ByEmail(coll, email) = {} THEN {coll \cup {upd @@ [email |-> email]}}
    ELSE {(coll \ {d}) \cup {SetFields(d, upd)} : d \in ByEmail(coll, email)}

\* update_one({"email": email}, {"$set": upd}): the collections that may result
\* (the first matching document is updated; none matching changes nothing)
UpdateOne(coll, email, upd) ==
    IF ByEmail(coll, email) = {} THEN {coll}
    ELSE {(coll \ {d}) \cup {SetFields(d, upd)} : d \in ByEmail(coll, email)}

\* update_one(..., upsert=True) with "$setOnInsert": ins
Upsert(coll, email, upd, ins) ==
    IF ByEmail(coll, email) = {} THEN {coll \cup {upd @@ ins}}
    ELSE UpdateOne(coll, email, upd)

-----------------------------------------------------------------------------
(* Requests *)

NoResp == [status |-> 0, detail |-> "", token |-> NoneStr]

\* the counts of get_stats, each 0 until its query has run
NoStats ==
    [total_users |-> 0, active_users |-> 0, inactive_users |-> 0,
     verified_users |-> 0, users_with_token |-> 0, logins_last_24h |-> 0,
     signups_last_7d |-> 0]

NoCall ==
    [op |-> "none", email |-> EmptyStr, code |-> EmptyStr, found |-> {},
     token |-> NoneStr, at |-> NoneTime, cause |-> "none", body |-> <<>>,
     stats |-> NoStats, resp |-> NoResp]

Clients == DOMAIN pc

NotConsumed == [code |-> EmptyStr, expires |-> NoneTime]

Accounts == {lower(r) : r \in RawEmails}

(* zol/port_utils.py, zol/server_manager.py *)

NoFile == 0
Pids == 1..MaxProcs
Managers == 1..NumManagers
Ports == {8082, 8083}

NoProc == [state |-> "none", port |-> NoFile]
IdleMgr == [pc |-> "idle", pid |-> NoFile, port |-> NoFile, ret |-> "none"]

\* os.kill(pid, 0) succeeds
ProcessExists(P, pid) == pid \in Pids /\ P[pid].state \in {"starting", "bound"}

\* a process is listening on 127.0.0.1:port
Listening(P, port) ==
    \E q \in Pids : P[q].state = "bound" /\ P[q].port = port

is_port_available(P, port) == ~Listening(P, port)

\* the first free port at or above 8082, NoFile for the RuntimeError
find_available_port(P) ==
    IF \E port \in Ports : is_port_available(P, port)
    THEN CHOOSE port \in Ports :
             /\ is_port_available(P, port)
             /\ \A o \in Ports : is_port_available(P, o) => port <= o
    ELSE NoFile

\* is_running(): what it returns, and whether it calls _cleanup()
is_running_value(P, pidf, portf) ==
    /\ pidf # NoFile
    /\ ProcessExists(P, pidf)
    /\ ~(portf # NoFile /\ is_port_available(P, portf))

is_running_cleans(P, pidf, portf) ==
    /\ pidf # NoFile
    /\ ~is_running_value(P, pidf, portf)

ServerInit ==
    /\ procs = [q \in Pids |-> NoProc]
    /\ SERVER_PID_FILE = NoFile
    /\ SERVER_PORT_FILE = NoFile
    /\ mgr = [m \in Managers |-> IdleMgr]

\* is_running() called on its own (the status command)
ServerManager_is_running(m) ==
    /\ mgr[m].pc = "idle"
    /\ LET up == is_running_value(procs, SERVER_PID_FILE, SERVER_PORT_FILE)
           cl == is_running_cleans(procs, SERVER_PID_FILE, SERVER_PORT_FILE)
       IN /\ SERVER_PID_FILE' = IF cl THEN NoFile ELSE SERVER_PID_FILE
          /\ SERVER_PORT_FILE' = IF cl THEN NoFile ELSE SERVER_PORT_FILE
          /\ mgr' = [mgr EXCEPT ![m] = [IdleMgr EXCEPT
                         !.ret = IF up THEN "True" ELSE "False"]]
    /\ UNCHANGED procs
    /\ UNCHANGED <<users, now, pc, call, ntok, consumed>>

\* start(), up to the choice of the port
start_is_running(m) ==
    /\ mgr[m].pc = "idle"
    /\ LET up == is_running_value(procs, SERVER_PID_FILE, SERVER_PORT_FILE)
           cl == is_running_cleans(procs, SERVER_PID_FILE, SERVER_PORT_FILE)
           port == find_available_port(procs)
       IN /\ SERVER_PID_FILE' = IF cl THEN NoFile ELSE SERVER_PID_FILE
          /\ SERVER_PORT_FILE' = IF cl THEN NoFile ELSE SERVER_PORT_FILE
          /\ mgr' = [mgr EXCEPT ![m] =
                 IF up THEN [IdleMgr EXCEPT !.ret = "port",
                                            !.port = SERVER_PORT_FILE]
                 ELSE IF port = NoFile
                      THEN [IdleMgr EXCEPT !.ret = "RuntimeError"]
                      ELSE [IdleMgr EXCEPT !.pc = "checked", !.port = port]]
    /\ UNCHANGED procs
    /\ UNCHANGED <<users, now, pc, call, ntok, consumed>>

\* start(): subprocess.Popen, the child not yet listening
start_Popen(m) ==
    /\ mgr[m].pc = "checked"
    /\ \E pid \in Pids :
          /\ procs[pid].state = "none"
          /\ \A q \in Pids : procs[q].state = "none" => pid <= q
          /\ procs' = [procs EXCEPT ![pid] =
                          [state |-> "starting", port |-> mgr[m].port]]
          /\ mgr' = [mgr EXCEPT ![m].pc = "popened", ![m].pid = pid]
    /\ UNCHANGED <<SERVER_PID_FILE, SERVER_PORT_FILE>>
    /\ UNCHANGED <<users, now, pc, call, ntok, consumed>>

\* start(): save_server_pid
start_save_pid(m) ==
    /\ mgr[m].pc = "popened"
    /\ SERVER_PID_FILE' = mgr[m].pid
    /\ mgr' = [mgr EXCEPT ![m].pc = "pid_saved"]
    /\ UNCHANGED <<procs, SERVER_PORT_FILE>>
    /\ UNCHANGED <<users, now, pc, call, ntok, consumed>>

\* start(): save_server_port
start_save_port(m) ==
    /\ mgr[m].pc = "pid_saved"
    /\ SERVER_PORT_FILE' = mgr[m].port
    /\ mgr' = [mgr EXCEPT ![m].pc = "waiting"]
    /\ UNCHANGED <<procs, SERVER_PID_FILE>>
    /\ UNCHANGED <<users, now, pc, call, ntok, consumed>>

\* _wait_for_server: a connect to the port succeeded
wait_for_server_ready(m) ==
    /\ mgr[m].pc = "waiting"
    /\ Listening(procs, mgr[m].port)
    /\ mgr' = [mgr EXCEPT ![m] = [IdleMgr EXCEPT !.ret = "port",
                                                !.port = mgr[m].port]]
    /\ UNCHANGED <<procs, SERVER_PID_FILE, SERVER_PORT_FILE>>
    /\ UNCHANGED <<users, now, pc, call, ntok, consumed>>

\* _wait_for_server: no connect succeeded for the whole timeout
wait_for_server_timeout(m) ==
    /\ mgr[m].pc = "waiting"
    /\ ~Listening(procs, mgr[m].port)
    /\ mgr' = [mgr EXCEPT ![m] = [IdleMgr EXCEPT !.ret = "RuntimeError"]]
    /\ UNCHANGED <<procs, SERVER_PID_FILE, SERVER_PORT_FILE>>
    /\ UNCHANGED <<users, now, pc, call, ntok, consumed>>

\* stop(): SIGTERM, then SIGKILL after 5 s, to the saved PID; _cleanup()
ServerManager_stop(m) ==
    /\ mgr[m].pc = "idle"
    /\ LET pid == SERVER_PID_FILE
       IN IF pid = NoFile
          THEN /\ mgr' = [mgr EXCEPT ![m] = [IdleMgr EXCEPT !.ret = "False"]]
               /\ UNCHANGED <<procs, SERVER_PID_FILE, SERVER_PORT_FILE>>
          ELSE /\ procs' = IF ProcessExists(procs, pid)
                           THEN [procs EXCEPT ![pid].state = "dead"]
                           ELSE procs
               /\ SERVER_PID_FILE' = NoFile
               /\ SERVER_PORT_FILE' = NoFile
               /\ mgr' = [mgr EXCEPT ![m] = [IdleMgr EXCEPT
                       !.ret = IF ProcessExists(procs, pid)
                               THEN "True" ELSE "False"]]
    /\ UNCHANGED <<users, now, pc, call, ntok, consumed>>

\* the spawned uvicorn binds its port, or exits when the port is taken
uvicorn_bind(pid) ==
    /\ procs[pid].state = "starting"
    /\ procs' = [procs EXCEPT ![pid].state =
                    IF is_port_available(procs, procs[pid].port)
                    THEN "bound" ELSE "dead"]
    /\ UNCHANGED <<SERVER_PID_FILE, SERVER_PORT_FILE, mgr>>
    /\ UNCHANGED <<users, now, pc, call, ntok, consumed>>

\* the spawned uvicorn dies on its own
uvicorn_exit(pid) ==
    /\ ProcessExists(procs, pid)
    /\ procs' = [procs EXCEPT ![pid].state = "dead"]
    /\ UNCHANGED <<SERVER_PID_FILE, SERVER_PORT_FILE, mgr>>
    /\ UNCHANGED <<users, now, pc, call, ntok, consumed>>

-----------------------------------------------------------------------------

Ready(p) == pc[p] = "ready"

-----------------------------------------------------------------------------
Init ==
    /\ ServerInit
    /\ users = {}
    /\ now = 0
    /\ pc = [p \in 1..1 |-> "ready"]
    /\ call = [p \in 1..1 |-> NoCall]
    /\ ntok = 0
    /\ consumed = [e \in Accounts |-> NotConsumed]

Tick ==
    /\ \E t \in Instants : t > now /\ now' = t
    /\ UNCHANGED <<users, pc, call, ntok, consumed>>
    /\ UNCHANGED svars

-----------------------------------------------------------------------------
(* auth/database.py *)

\* find_one(query): no document, or any one of those matching
FindOne(matching) == IF matching = {} THEN {{}} ELSE {{d} : d \in matching}

\* get_user_by_email(email): the set holding the document found, if any
get_user_by_email(coll, email) == FindOne(ByEmail(coll, lower(email)))

\* a faulty variant of TokenQuery: the query without its "verified" filter
TokenQuery_unverified(coll, token) ==
    {d \in coll :
        /\ "intercept_token" \in DOMAIN d /\ d["intercept_token"] = token
        /\ ~("active" \in DOMAIN d /\ d["active"] = FALSE)}

\* the query of get_user_by_token: {"intercept_token": token, "verified": True,
\* "active": {"$ne": False}}
TokenQuery(coll, token) ==
    {d \in coll :
        /\ "intercept_token" \in DOMAIN d /\ d["intercept_token"] = token
        /\ "verified" \in DOMAIN d /\ d["verified"] = TRUE
        /\ ~("active" \in DOMAIN d /\ d["active"] = FALSE)}

get_user_by_token(coll, token) == FindOne(TokenQuery(coll, token))

\* a faulty variant of create_or_update_verification: "verified": False moved
\* from "$setOnInsert" to "$set"
create_or_update_verification_resets(coll, email, r, t) ==
    Upsert(coll, lower(email),
           [verification_code |-> _generate_verification_code(r),
            verification_code_expires |-> t + VERIFICATION_CODE_EXPIRY_MINUTES,
            verified |-> FALSE],
           [email |-> lower(email), created_at |-> t])

\* a faulty variant of create_or_update_verification: the record is inserted
\* disabled
create_or_update_verification_disabled(coll, email, r, t) ==
    Upsert(coll, lower(email),
           [verification_code |-> _generate_verification_code(r),
            verification_code_expires |-> t + VERIFICATION_CODE_EXPIRY_MINUTES],
           [email |-> lower(email), verified |-> FALSE, active |-> FALSE,
            created_at |-> t])

\* create_or_update_verification(email) at time t with the draw r
create_or_update_verification(coll, email, r, t) ==
    Upsert(coll, lower(email),
           [verification_code |-> _generate_verification_code(r),
            verification_code_expires |-> t + VERIFICATION_CODE_EXPIRY_MINUTES],
           [email |-> lower(email), verified |-> FALSE, created_at |-> t])

\* a faulty variant of verify_code_check: the submitted code is not compared
verify_code_check_anycode(found, code, t) ==
    IF found = {} THEN "no_user"
    ELSE LET user == User(CHOOSE d \in found : TRUE) IN
         IF ~user.active THEN "inactive"
         ELSE IF ~Truthy(user.verification_code)
                 \/ user.verification_code_expires = NoneTime THEN "no_code"
         ELSE IF t > user.verification_code_expires THEN "expired"
         ELSE "ok"

\* a faulty variant of verify_code_check: no check of user.active
verify_code_check_noactive(found, code, t) ==
    IF found = {} THEN "no_user"
    ELSE LET user == User(CHOOSE d \in found : TRUE) IN
         IF ~Truthy(user.verification_code)
            \/ user.verification_code_expires = NoneTime THEN "no_code"
         ELSE IF user.verification_code # code THEN "wrong_code"
         ELSE IF t > user.verification_code_expires THEN "expired"
         ELSE "ok"

\* a faulty variant of verify_code_check: ">=" for ">" in the expiry check
verify_code_check_strict(found, code, t) ==
    IF found = {} THEN "no_user"
    ELSE LET user == User(CHOOSE d \in found : TRUE) IN
         IF ~user.active THEN "inactive"
         ELSE IF ~Truthy(user.verification_code)
                 \/ user.verification_code_expires = NoneTime THEN "no_code"
         ELSE IF user.verification_code # code THEN "wrong_code"
         ELSE IF t >= user.verification_code_expires THEN "expired"
         ELSE "ok"

\* the early returns of verify_code on the document it read, at time t:
\* which one is taken, "ok" if none
verify_code_check(found, code, t) ==
    IF found = {} THEN "no_user"
    ELSE LET user == User(CHOOSE d \in found : TRUE) IN
         IF ~user.active THEN "inactive"
         ELSE IF ~Truthy(user.verification_code)
                 \/ user.verification_code_expires = NoneTime THEN "no_code"
         ELSE IF user.verification_code # code THEN "wrong_code"
         ELSE IF t > user.verification_code_expires THEN "expired"
         ELSE "ok"

\* a faulty variant of verify_code_rejected: the code that was refused is purged
verify_code_rejected_purges(coll, email) ==
    CHOOSE c \in UpdateOne(coll, email,
                           [verification_code |-> NoneStr,
                            verification_code_expires |-> NoneTime]) : TRUE

\* the store at an early return of verify_code: nothing has been written
verify_code_rejected(coll, email) == coll

\* a faulty variant of verify_code_return: no "if not user: return None", so
\* user.active raises on None
verify_code_return_raises(cause) == IF cause = "no_user" THEN Raised ELSE NoneStr

\* what verify_code returns at the early return taken: "return None" each time
verify_code_return(cause) == NoneStr

\* a faulty variant of verify_code_token: the token is generated anew whatever
\* the user holds
verify_code_token_regen(user, r) == _generate_token(r)

\* a faulty variant of verify_code_token: the token is kept for a verified user
\* only
verify_code_token_ifverified(user, r) ==
    IF Truthy(user.intercept_token) /\ user.verified THEN user.intercept_token
    ELSE _generate_token(r)

\* token = user.intercept_token if user.intercept_token else self._generate_token()
verify_code_token(user, r) ==
    IF Truthy(user.intercept_token) THEN user.intercept_token
    ELSE _generate_token(r)

\* a faulty variant of verify_code_set: the expiry of the code is left in place
verify_code_set_keepexpiry(token, t) ==
    [intercept_token |-> token, verified |-> TRUE,
     verification_code |-> NoneStr, last_logged_in |-> t]

\* a faulty variant of verify_code_set: the code and its expiry are left in place
verify_code_set_keepcode(token, t) ==
    [intercept_token |-> token, verified |-> TRUE, last_logged_in |-> t]

\* the "$set" of verify_code
verify_code_set(token, t) ==
    [intercept_token |-> token,
     verified |-> TRUE,
     verification_code |-> NoneStr,
     verification_code_expires |-> NoneTime,
     last_logged_in |-> t]

\* update_user: the allow-list, then "a token also marks as verified"
AllowedFields == {"active", "verified", "intercept_token"}

\* a faulty variant of safe_updates: a token does not mark as verified
safe_updates_plain(updates) ==
    [k \in DOMAIN updates \cap AllowedFields |-> updates[k]]

safe_updates(updates) ==
    LET safe == [k \in DOMAIN updates \cap AllowedFields |-> updates[k]] IN
    IF "intercept_token" \in DOMAIN safe /\ Truthy(safe["intercept_token"])
    THEN [verified |-> TRUE] @@ safe
    ELSE safe

\* the document create_preconfigured_user inserts
preconfigured_doc(email, token, active, t) ==
    [email |-> lower(email), intercept_token |-> token, verified |-> FALSE,
     active |-> active, created_at |-> t]

Ellipsis == <<".", ".", ".">>

REDACTED_PREFIX_LEN == 8

\* s[:n]
Prefix(s, n) == SubSeq(s, 1, IF Len(s) < n THEN Len(s) ELSE n)

\* list_users: what becomes of one document
list_entry(doc) ==
    IF Truthy(Get(doc, "intercept_token", NoneStr))
    THEN [has_token |-> TRUE,
          intercept_token |->
              Prefix(doc["intercept_token"], REDACTED_PREFIX_LEN) \o Ellipsis] @@ doc
    ELSE [has_token |-> FALSE] @@ doc

\* list_users(): the entries, here as a set
list_users_entries(coll) == {list_entry(d) : d \in coll}

\* a faulty variant of toggle_new_status: a missing user is taken for an
\* enabled one
toggle_new_status_default(found) ==
    IF found = {} THEN {FALSE} ELSE {~User(d).active : d \in found}

\* toggle_user_active: new_status = not user.active, or nothing (None) when
\* get_user_by_email found no user
toggle_new_status(found) == {~User(d).active : d \in found}

\* the "$set" and the "$setOnInsert" of seed_user
seed_user_set(token) ==
    [intercept_token |-> token, verified |-> TRUE,
     verification_code |-> NoneStr, verification_code_expires |-> NoneTime]

seed_user_on_insert(email, t) ==
    [email |-> email, active |-> TRUE, created_at |-> t]

\* the "$set" of invalidate_token
invalidate_token_set == [intercept_token |-> NoneStr, verified |-> FALSE]

DAY_MINUTES == 1440
WEEK_MINUTES == 10080

\* the filter {"active": {"$ne": False}}
ActiveNeFalse(d) == ~("active" \in DOMAIN d /\ d["active"] = FALSE)

\* count_documents({})
CountAll(coll) == Cardinality(coll)

\* a faulty variant of CountActive: the filter {"active": True}
CountActive_explicit(coll) ==
    Cardinality({d \in coll : "active" \in DOMAIN d /\ d["active"] = TRUE})

\* count_documents({"active": {"$ne": False}})
CountActive(coll) == Cardinality({d \in coll : ActiveNeFalse(d)})

\* count_documents({"verified": True})
CountVerified(coll) ==
    Cardinality({d \in coll : "verified" \in DOMAIN d /\ d["verified"] = TRUE})

\* count_documents({"intercept_token": {"$ne": None}}): the field is there
\* and is not null
CountWithToken(coll) ==
    Cardinality({d \in coll :
        "intercept_token" \in DOMAIN d /\ d["intercept_token"] # NoneStr})

\* count_documents({field: {"$gte": since}}): the field is there and is a date
CountSince(coll, field, since) ==
    Cardinality({d \in coll :
        field \in DOMAIN d /\ d[field] # NoneTime /\ d[field] >= since})

-----------------------------------------------------------------------------
(* api/auth_routes.py *)

Resp(status, detail) == [status |-> status, detail |-> detail, token |-> NoneStr]

\* a faulty variant of send_code_response: an unknown email is reported
send_code_response_enumerates(prior) ==
    IF prior = {} THEN Resp(404, "User not found")
    ELSE Resp(200, "Verification code sent")

\* what POST /auth/send-code returns once the code is stored and sent, prior
\* being the record the email had before the call: the same body every time
send_code_response(prior) == Resp(200, "Verification code sent")

\* how the delivery of the email goes: no SMTP configured (the code is printed
\* on the console), the SMTP server takes the message, or smtplib raises
SmtpOutcomes == {"console", "sent", "failed"}

\* a faulty variant of EmailService_send_verification_code: the exception of
\* smtplib is not caught
EmailService_send_verification_code_raises(smtp) ==
    IF smtp = "failed" THEN "raise" ELSE "True"

\* EmailService.send_verification_code: what it returns for each outcome of
\* the delivery; the exception of smtplib is caught and the code printed
EmailService_send_verification_code(smtp) == "True"

\* the try/except of POST /auth/send-code around the delivery
route_send_response(delivery, prior) ==
    IF delivery = "raise" THEN Resp(500, "Failed to send verification code")
    ELSE send_code_response(prior)

\* POST /auth/send-code
send_verification_code(p, raw, r, smtp) ==
    /\ Ready(p)
    /\  /\ users' \in create_or_update_verification(users, lower(raw), r, now)
        /\ call' = [call EXCEPT ![p] =
               [NoCall EXCEPT !.op = "send_code", !.email = lower(raw),
                              !.code = _generate_verification_code(r), !.at = now,
                              !.cause = smtp,
                              !.resp = route_send_response(
                                  EmailService_send_verification_code(smtp),
                                  ByEmail(users, lower(raw)))]]
    /\ consumed' = [consumed EXCEPT ![lower(raw)] = NotConsumed]
    /\ UNCHANGED <<now, pc, ntok>>
    /\ UNCHANGED svars

\* the response of POST /auth/verify for what verify_code returned, or for the
\* exception it raised
route_verify_response(token) ==
    IF token = Raised THEN Resp(500, "Verification failed")
    ELSE IF ~Truthy(token) THEN Resp(401, "Invalid or expired verification code")
    ELSE [status |-> 200, detail |-> "", token |-> token]

\* POST /auth/verify, up to the return of verify_code's find_one: the checks
\* and the choice of the token
verify_code_find(p, raw, rawcode) ==
    /\ Ready(p)
    /\ LET email == lower(lower(raw))
           code == strip(rawcode) IN
       \E found \in get_user_by_email(users, email) :
         LET cause == verify_code_check(found, code, now)
             user == User(CHOOSE d \in found : TRUE)
             c0 == [NoCall EXCEPT !.op = "verify", !.email = email, !.code = code,
                                  !.found = found, !.at = now, !.cause = cause] IN
         IF cause # "ok"
         THEN /\ call' = [call EXCEPT ![p] =
                     [c0 EXCEPT !.resp =
                         route_verify_response(verify_code_return(cause))]]
              /\ users' = verify_code_rejected(users, email)
              /\ UNCHANGED <<pc, ntok>>
         ELSE /\ Truthy(user.intercept_token) \/ ntok < MaxGen
              /\ ntok' = IF Truthy(user.intercept_token) THEN ntok ELSE ntok + 1
              /\ call' = [call EXCEPT ![p] =
                     [c0 EXCEPT !.token = verify_code_token(user, ntok + 1)]]
              /\ pc' = [pc EXCEPT ![p] = "verify_update"]
              /\ UNCHANGED users
    /\ UNCHANGED <<now, consumed>>
    /\ UNCHANGED svars

\* POST /auth/verify, verify_code's update_one and the response
verify_code_update(p) ==
    /\ pc[p] = "verify_update"
    /\ users' \in UpdateOne(users, call[p].email,
                            verify_code_set(call[p].token, call[p].at))
    /\ call' = [call EXCEPT ![p].resp = route_verify_response(call[p].token)]
    /\ pc' = [pc EXCEPT ![p] = "ready"]
    /\ consumed' = [consumed EXCEPT ![call[p].email] =
           [code |-> call[p].code,
            expires |-> User(CHOOSE d \in call[p].found : TRUE).verification_code_expires]]
    /\ UNCHANGED <<now, ntok>>
    /\ UNCHANGED svars

\* tokens a caller may present
KnownTokens == AdminTokens \cup {_generate_token(r) : r \in 1..MaxGen}

Bearer == <<"B", "e", "a", "r", "e", "r", " ">>

Headers == {NoneStr} \cup KnownTokens \cup {Bearer \o t : t \in KnownTokens}

\* the token get_provider_config reads from the Authorization header
bearer_token(authorization) ==
    IF startswith(lower(authorization), lower(Bearer))
    THEN SubSeq(authorization, BEARER_PREFIX_LEN + 1, Len(authorization))
    ELSE authorization

\* GET /auth/config
get_provider_config(p, authorization) ==
    /\ Ready(p)
    /\ IF ~Truthy(authorization)
       THEN call' = [call EXCEPT ![p] =
                [NoCall EXCEPT !.op = "config",
                               !.resp = Resp(401, "Authorization header required")]]
       ELSE \E found \in get_user_by_token(users, bearer_token(authorization)) :
              call' = [call EXCEPT ![p] =
                [NoCall EXCEPT !.op = "config", !.found = found,
                               !.token = bearer_token(authorization),
                               !.resp = IF found = {}
                                        THEN Resp(401, "Invalid or expired token")
                                        ELSE Resp(200, "ProviderConfig")]]
    /\ UNCHANGED <<users, now, pc, ntok, consumed>>
    /\ UNCHANGED svars

-----------------------------------------------------------------------------
(* api/admin_routes.py *)

\* verify_admin: the X-Admin-Password header against ADMIN_PASSWORD
\* a faulty variant of verify_admin: any header that is not empty is accepted
verify_admin_nonempty(pw) == pw # ""

verify_admin(pw) == pw = ADMIN_PASSWORD

Unauthorized(op) ==
    [NoCall EXCEPT !.op = op, !.resp = Resp(401, "Invalid admin password")]

\* JSON bodies of PATCH /admin/api/users/{email}; a key left out is a field
\* that is None
UpdateBodies ==
    {<<>>,
     [active |-> FALSE], [active |-> TRUE], [verified |-> FALSE],
     [intercept_token |-> EmptyStr],
     [intercept_token |-> <<"a", "b", "c", "1", "2", "3">>],
     [intercept_token |-> <<"a", "b", "c", "1", "2", "3">>, verified |-> FALSE],
     [email |-> <<"b">>],
     [email |-> <<"b">>, created_at |-> 0, active |-> FALSE]}

UserUpdateFields == {"active", "verified", "intercept_token"}

\* UserUpdate(**body).model_dump(exclude_none=True): the model has three
\* fields and ignores every other key
UserUpdate(body) == [k \in DOMAIN body \cap UserUpdateFields |-> body[k]]

\* PATCH /admin/api/users/{email}
update_user(p, pw, raw, body) ==
    /\ Ready(p)
    /\ LET update_dict == UserUpdate(body)
           c0 == [NoCall EXCEPT !.op = "update", !.email = lower(raw),
                                !.body = body] IN
       IF ~verify_admin(pw)
       THEN /\ call' = [call EXCEPT ![p] = Unauthorized("update")]
            /\ UNCHANGED users
       ELSE IF DOMAIN update_dict = {}
       THEN /\ call' = [call EXCEPT ![p] =
                   [c0 EXCEPT !.resp = Resp(400, "No valid updates provided")]]
            /\ UNCHANGED users
       ELSE IF DOMAIN safe_updates(update_dict) = {}
       THEN /\ call' = [call EXCEPT ![p] =
                   [c0 EXCEPT !.resp = Resp(404, "User not found or no changes made")]]
            /\ UNCHANGED users
       ELSE /\ users' \in UpdateOne(users, lower(raw), safe_updates(update_dict))
            \* result.modified_count > 0: a document matched and was changed
            /\ call' = [call EXCEPT ![p] =
                   [c0 EXCEPT !.resp =
                       IF users' # users
                       THEN Resp(200, "updated")
                       ELSE Resp(404, "User not found or no changes made")]]
    /\ UNCHANGED <<now, pc, ntok, consumed>>
    /\ UNCHANGED svars

\* POST /admin/api/users, up to the return of get_user_by_email; call[p].found
\* then holds the document that insert_one is given
create_user_find(p, pw, raw, token, active) ==
    /\ Ready(p)
    /\ IF ~verify_admin(pw)
       THEN /\ call' = [call EXCEPT ![p] = Unauthorized("create")]
            /\ UNCHANGED pc
       ELSE \E found \in get_user_by_email(users, lower(raw)) :
            IF found # {}
            THEN /\ call' = [call EXCEPT ![p] =
                        [NoCall EXCEPT !.op = "create", !.email = lower(raw),
                                       !.found = found,
                                       !.resp = Resp(400, "User already exists")]]
                 /\ UNCHANGED pc
            ELSE /\ call' = [call EXCEPT ![p] =
                        [NoCall EXCEPT !.op = "create", !.email = lower(raw),
                            !.found = {preconfigured_doc(raw, token, active, now)},
                            !.at = now]]
                 /\ pc' = [pc EXCEPT ![p] = "create_insert"]
    /\ UNCHANGED <<users, now, ntok, consumed>>
    /\ UNCHANGED svars

\* POST /admin/api/users, insert_one under the unique index on email
create_user_insert(p) ==
    /\ pc[p] = "create_insert"
    /\ IF ByEmail(users, call[p].email) # {}
       THEN \* DuplicateKeyError, not caught by the route
            /\ call' = [call EXCEPT ![p].resp = Resp(500, "Internal Server Error")]
            /\ UNCHANGED users
       ELSE /\ users' = users \cup call[p].found
            /\ call' = [call EXCEPT ![p].resp = Resp(200, "created")]
    /\ pc' = [pc EXCEPT ![p] = "ready"]
    /\ UNCHANGED <<now, ntok, consumed>>
    /\ UNCHANGED svars

\* DELETE /admin/api/users/{email}
delete_user(p, pw, raw) ==
    /\ Ready(p)
    /\ IF ~verify_admin(pw)
       THEN /\ call' = [call EXCEPT ![p] = Unauthorized("delete")]
            /\ UNCHANGED users
       ELSE \E found \in FindOne(ByEmail(users, lower(raw))) :
            /\ users' = users \ found
            /\ call' = [call EXCEPT ![p] =
                   [NoCall EXCEPT !.op = "delete", !.email = lower(raw),
                       !.found = found,
                       !.resp = IF found # {} THEN Resp(200, "deleted")
                                ELSE Resp(404, "User not found")]]
    /\ UNCHANGED <<now, pc, ntok, consumed>>
    /\ UNCHANGED svars

\* GET /admin/api/users
list_users(p, pw) ==
    /\ Ready(p)
    /\ call' = [call EXCEPT ![p] =
           IF ~verify_admin(pw) THEN Unauthorized("list")
           ELSE [NoCall EXCEPT !.op = "list", !.found = list_users_entries(users),
                               !.resp = Resp(200, "users")]]
    /\ UNCHANGED <<users, now, pc, ntok, consumed>>
    /\ UNCHANGED svars

\* GET /admin/api/users/{email}
get_user(p, pw, raw) ==
    /\ Ready(p)
    /\ IF ~verify_admin(pw)
       THEN call' = [call EXCEPT ![p] = Unauthorized("detail")]
       ELSE \E found \in FindOne(ByEmail(users, lower(raw))) :
            call' = [call EXCEPT ![p] =
                [NoCall EXCEPT !.op = "detail", !.email = lower(raw),
                               !.found = found,
                               !.resp = IF found = {} THEN Resp(404, "User not found")
                                        ELSE Resp(200, "user")]]
    /\ UNCHANGED <<users, now, pc, ntok, consumed>>
    /\ UNCHANGED svars

\* POST /admin/api/users/{email}/toggle, up to the return of get_user_by_email
toggle_user_find(p, pw, raw) ==
    /\ Ready(p)
    /\ IF ~verify_admin(pw)
       THEN /\ call' = [call EXCEPT ![p] = Unauthorized("toggle")]
            /\ UNCHANGED pc
       ELSE \E found \in get_user_by_email(users, lower(raw)) :
            IF toggle_new_status(found) = {}
            THEN /\ call' = [call EXCEPT ![p] =
                        [NoCall EXCEPT !.op = "toggle", !.email = lower(raw),
                                       !.resp = Resp(404, "User not found")]]
                 /\ UNCHANGED pc
            ELSE /\ call' = [call EXCEPT ![p] =
                        [NoCall EXCEPT !.op = "toggle", !.email = lower(raw),
                                       !.found = found]]
                 /\ pc' = [pc EXCEPT ![p] = "toggle_update"]
    /\ UNCHANGED <<users, now, ntok, consumed>>
    /\ UNCHANGED svars

\* POST /admin/api/users/{email}/toggle, toggle_user_active's update_one and
\* the response, which carries new_status
toggle_user_update(p) ==
    /\ pc[p] = "toggle_update"
    /\ \E new_status \in toggle_new_status(call[p].found) :
         /\ users' \in UpdateOne(users, call[p].email, [active |-> new_status])
         /\ call' = [call EXCEPT ![p].resp =
                Resp(200, IF new_status THEN "active: true" ELSE "active: false")]
    /\ pc' = [pc EXCEPT ![p] = "ready"]
    /\ UNCHANGED <<now, ntok, consumed>>
    /\ UNCHANGED svars

\* seed_user(email, token), up to the return of get_user_by_email; it returns
\* False when the user holds the token already
seed_user_find(p, raw, token) ==
    /\ Ready(p)
    /\ \E found \in get_user_by_email(users, lower(raw)) :
         LET c0 == [NoCall EXCEPT !.op = "seed", !.email = lower(raw),
                                  !.found = found, !.token = token, !.at = now] IN
         IF \E d \in found : User(d).intercept_token = token
         THEN /\ call' = [call EXCEPT ![p] = [c0 EXCEPT !.resp = Resp(200, "False")]]
              /\ UNCHANGED pc
         ELSE /\ call' = [call EXCEPT ![p] = c0]
              /\ pc' = [pc EXCEPT ![p] = "seed_upsert"]
    /\ UNCHANGED <<users, now, ntok, consumed>>
    /\ UNCHANGED svars

\* seed_user: the update_one with upsert, and "return True"
seed_user_upsert(p) ==
    /\ pc[p] = "seed_upsert"
    /\ users' \in Upsert(users, call[p].email, seed_user_set(call[p].token),
                          seed_user_on_insert(call[p].email, now))
    /\ call' = [call EXCEPT ![p].resp = Resp(200, "True")]
    /\ pc' = [pc EXCEPT ![p] = "ready"]
    /\ UNCHANGED <<now, ntok, consumed>>
    /\ UNCHANGED svars

\* invalidate_token(email): one update_one; it returns modified_count > 0.
\* call[p].found holds the record as it was before
invalidate_token(p, raw) ==
    /\ Ready(p)
    /\ users' \in UpdateOne(users, lower(raw), invalidate_token_set)
    /\ call' = [call EXCEPT ![p] =
           [NoCall EXCEPT !.op = "invalidate", !.email = lower(raw),
               !.found = ByEmail(users, lower(raw)),
               !.resp = Resp(200, IF users' # users THEN "True" ELSE "False")]]
    /\ UNCHANGED <<now, pc, ntok, consumed>>
    /\ UNCHANGED svars

\* GET /admin/api/stats, up to the return of get_stats' first query
get_stats_total(p, pw) ==
    /\ Ready(p)
    /\ IF ~verify_admin(pw)
       THEN /\ call' = [call EXCEPT ![p] = Unauthorized("stats")]
            /\ UNCHANGED pc
       ELSE /\ call' = [call EXCEPT ![p] =
                   [NoCall EXCEPT !.op = "stats",
                                  !.stats.total_users = CountAll(users)]]
            /\ pc' = [pc EXCEPT ![p] = "stats_active"]
    /\ UNCHANGED <<users, now, ntok, consumed>>
    /\ UNCHANGED svars

\* get_stats: active = count_documents({"active": {"$ne": False}})
get_stats_active(p) ==
    /\ pc[p] = "stats_active"
    /\ call' = [call EXCEPT ![p].stats.active_users = CountActive(users)]
    /\ pc' = [pc EXCEPT ![p] = "stats_verified"]
    /\ UNCHANGED <<users, now, ntok, consumed>>
    /\ UNCHANGED svars

\* get_stats: verified = count_documents({"verified": True})
get_stats_verified(p) ==
    /\ pc[p] = "stats_verified"
    /\ call' = [call EXCEPT ![p].stats.verified_users = CountVerified(users)]
    /\ pc' = [pc EXCEPT ![p] = "stats_with_token"]
    /\ UNCHANGED <<users, now, ntok, consumed>>
    /\ UNCHANGED svars

\* get_stats: with_token = count_documents({"intercept_token": {"$ne": None}})
get_stats_with_token(p) ==
    /\ pc[p] = "stats_with_token"
    /\ call' = [call EXCEPT ![p].stats.users_with_token = CountWithToken(users)]
    /\ pc' = [pc EXCEPT ![p] = "stats_logins"]
    /\ UNCHANGED <<users, now, ntok, consumed>>
    /\ UNCHANGED svars

\* get_stats: recent_logins, counted from yesterday = utcnow() - 1 day
get_stats_logins(p) ==
    /\ pc[p] = "stats_logins"
    /\ call' = [call EXCEPT ![p].stats.logins_last_24h =
           CountSince(users, "last_logged_in", now - DAY_MINUTES)]
    /\ pc' = [pc EXCEPT ![p] = "stats_signups"]
    /\ UNCHANGED <<users, now, ntok, consumed>>
    /\ UNCHANGED svars

\* get_stats: recent_signups, counted from last_week = utcnow() - 7 days, and
\* the dict returned, with inactive_users = total - active
get_stats_signups(p) ==
    /\ pc[p] = "stats_signups"
    /\ call' = [call EXCEPT
           ![p].stats.signups_last_7d =
               CountSince(users, "created_at", now - WEEK_MINUTES),
           ![p].stats.inactive_users =
               call[p].stats.total_users - call[p].stats.active_users,
           ![p].resp = Resp(200, "stats")]
    /\ pc' = [pc EXCEPT ![p] = "ready"]
    /\ UNCHANGED <<users, now, ntok, consumed>>
    /\ UNCHANGED svars

\* the queries of get_stats after the first, one at a time
get_stats_next(p) ==
    \/ get_stats_active(p)
    \/ get_stats_verified(p)
    \/ get_stats_with_token(p)
    \/ get_stats_logins(p)
    \/ get_stats_signups(p)

-----------------------------------------------------------------------------
(* Specifications *)

\* what callers send
OneEmail == {<<"a">>, <<"A">>}
TwoEmails == {<<"A">>, <<"b">>}
OneDraw == {123456}
SubmittedCodes ==
    {_generate_verification_code(r) : r \in CodeDraws}
    \cup {<<" ">> \o _generate_verification_code(42) \o <<" ">>}
FewBodies ==
    {u \in UpdateBodies :
        /\ Cardinality(DOMAIN u \cap UserUpdateFields) <= 1
        /\ u # [intercept_token |-> EmptyStr]}
TokenBodies == {u \in UpdateBodies : "intercept_token" \in DOMAIN u}

\* Spec: one client, one account, every request running to its end before the
\* next starts, with the clock advancing
Next ==
    \/ Tick
    \/ \E p \in Clients, raw \in OneEmail, r \in CodeDraws :
         send_verification_code(p, raw, r, "console")
    \/ \E p \in Clients, raw \in OneEmail, c \in SubmittedCodes :
         verify_code_find(p, raw, c)
    \/ \E p \in Clients : verify_code_update(p)
    \/ \E p \in Clients, pw \in AdminPasswords, raw \in OneEmail,
          u \in UpdateBodies : update_user(p, pw, raw, u)
    \/ \E p \in Clients, pw \in AdminPasswords, raw \in OneEmail,
          t \in AdminTokens, a \in BOOLEAN : create_user_find(p, pw, raw, t, a)
    \/ \E p \in Clients : create_user_insert(p)
    \/ \E p \in Clients, pw \in AdminPasswords, raw \in OneEmail :
         delete_user(p, pw, raw)

Spec == Init /\ [][Next]_vars

\* SpecTwo: one client, two accounts, the clock standing still
NextTwo ==
    \/ \E p \in Clients, raw \in TwoEmails, r \in OneDraw :
         send_verification_code(p, raw, r, "console")
    \/ \E p \in Clients, raw \in TwoEmails, r \in OneDraw :
         verify_code_find(p, raw, _generate_verification_code(r))
    \/ \E p \in Clients : verify_code_update(p)
    \/ \E p \in Clients, h \in Headers : get_provider_config(p, h)
    \/ \E p \in Clients, raw \in TwoEmails, u \in FewBodies :
         update_user(p, ADMIN_PASSWORD, raw, u)
    \/ \E p \in Clients, raw \in TwoEmails, t \in AdminTokens \ {EmptyStr},
          a \in BOOLEAN : create_user_find(p, ADMIN_PASSWORD, raw, t, a)
    \/ \E p \in Clients : create_user_insert(p)

SpecTwo == Init /\ [][NextTwo]_vars

\* SpecConc: NumClients concurrent requests on one account, the clock standing
\* still
InitConc ==
    /\ ServerInit
    /\ users = {}
    /\ now = 0
    /\ pc = [p \in 1..NumClients |-> "ready"]
    /\ call = [p \in 1..NumClients |-> NoCall]
    /\ ntok = 0
    /\ consumed = [e \in Accounts |-> NotConsumed]

NextConc ==
    \/ \E p \in Clients, raw \in OneEmail, r \in CodeDraws :
         send_verification_code(p, raw, r, "console")
    \/ \E p \in Clients, raw \in OneEmail, r \in CodeDraws :
         verify_code_find(p, raw, _generate_verification_code(r))
    \/ \E p \in Clients : verify_code_update(p)
    \/ \E p \in Clients, raw \in OneEmail, u \in TokenBodies :
         update_user(p, ADMIN_PASSWORD, raw, u)

SpecConc == InitConc /\ [][NextConc]_vars

\* SpecAdmin: one client, two accounts, the clock standing still: what the
\* administrator does, with token lookups and verifications in between
NextAdmin ==
    \/ \E p \in Clients, raw \in TwoEmails, r \in OneDraw :
         send_verification_code(p, raw, r, "console")
    \/ \E p \in Clients, raw \in TwoEmails, r \in OneDraw :
         verify_code_find(p, raw, _generate_verification_code(r))
    \/ \E p \in Clients : verify_code_update(p)
    \/ \E p \in Clients, h \in Headers : get_provider_config(p, h)
    \/ \E p \in Clients, raw \in TwoEmails, u \in TokenBodies :
         update_user(p, ADMIN_PASSWORD, raw, u)
    \/ \E p \in Clients, raw \in TwoEmails :
         delete_user(p, ADMIN_PASSWORD, raw)
    \/ \E p \in Clients, pw \in AdminPasswords : list_users(p, pw)
    \/ \E p \in Clients, pw \in AdminPasswords, raw \in TwoEmails :
         get_user(p, pw, raw)
    \/ \E p \in Clients, pw \in AdminPasswords, raw \in TwoEmails :
         toggle_user_find(p, pw, raw)
    \/ \E p \in Clients : toggle_user_update(p)
    \/ \E p \in Clients, pw \in AdminPasswords : get_stats_total(p, pw)
    \/ \E p \in Clients : get_stats_next(p)

SpecAdmin == Init /\ [][NextAdmin]_vars

\* SpecProv: NumClients concurrent requests on one account that create it,
\* by createPreconfigured or by requestCode, and verify it; nothing else
\* writes to it
NextProv ==
    \/ \E p \in Clients, raw \in OneEmail, t \in AdminTokens, a \in BOOLEAN :
         create_user_find(p, ADMIN_PASSWORD, raw, t, a)
    \/ \E p \in Clients : create_user_insert(p)
    \/ \E p \in Clients, raw \in OneEmail, r \in OneDraw :
         send_verification_code(p, raw, r, "console")
    \/ \E p \in Clients, raw \in OneEmail, r \in OneDraw :
         verify_code_find(p, raw, _generate_verification_code(r))
    \/ \E p \in Clients : verify_code_update(p)

SpecProv == InitConc /\ [][NextProv]_vars

\* SpecStats: NumClients concurrent requests on one account, the clock
\* standing still: the statistics while the users change
NextStats ==
    \/ \E p \in Clients, raw \in OneEmail, r \in OneDraw :
         send_verification_code(p, raw, r, "console")
    \/ \E p \in Clients, raw \in OneEmail, r \in OneDraw :
         verify_code_find(p, raw, _generate_verification_code(r))
    \/ \E p \in Clients : verify_code_update(p)
    \/ \E p \in Clients, raw \in OneEmail, t \in AdminTokens \ {EmptyStr} :
         create_user_find(p, ADMIN_PASSWORD, raw, t, TRUE)
    \/ \E p \in Clients : create_user_insert(p)
    \/ \E p \in Clients, raw \in OneEmail :
         update_user(p, ADMIN_PASSWORD, raw, [verified |-> FALSE])
    \/ \E p \in Clients, raw \in OneEmail : delete_user(p, ADMIN_PASSWORD, raw)
    \/ \E p \in Clients : get_stats_total(p, ADMIN_PASSWORD)
    \/ \E p \in Clients : get_stats_next(p)

SpecStats == InitConc /\ [][NextStats]_vars

\* SpecCase: one client, one account, the clock standing still; the calls
\* that create a record spell the email in upper case, those that read or
\* change an existing record in lower case
UpperEmail == {<<"A">>}
LowerEmail == {<<"a">>}

NextCase ==
    \/ \E p \in Clients, raw \in UpperEmail, r \in OneDraw :
         send_verification_code(p, raw, r, "console")
    \/ \E p \in Clients, raw \in LowerEmail, r \in OneDraw :
         verify_code_find(p, raw, _generate_verification_code(r))
    \/ \E p \in Clients : verify_code_update(p)
    \/ \E p \in Clients, raw \in UpperEmail, t \in AdminTokens, a \in BOOLEAN :
         create_user_find(p, ADMIN_PASSWORD, raw, t, a)
    \/ \E p \in Clients : create_user_insert(p)
    \/ \E p \in Clients, raw \in UpperEmail, t \in AdminTokens \ {EmptyStr} :
         seed_user_find(p, raw, t)
    \/ \E p \in Clients : seed_user_upsert(p)
    \/ \E p \in Clients, raw \in LowerEmail, u \in UpdateBodies :
         update_user(p, ADMIN_PASSWORD, raw, u)
    \/ \E p \in Clients, raw \in LowerEmail :
         toggle_user_find(p, ADMIN_PASSWORD, raw)
    \/ \E p \in Clients : toggle_user_update(p)
    \/ \E p \in Clients, raw \in LowerEmail : get_user(p, ADMIN_PASSWORD, raw)
    \/ \E p \in Clients, raw \in LowerEmail : delete_user(p, ADMIN_PASSWORD, raw)

SpecCase == Init /\ [][NextCase]_vars

\* SpecLogin: one client, two accounts; every verifyCode follows at once the
\* requestCode of the same email and submits the code that one sent, while an
\* admin sets tokens and toggles accounts between the logins
NextLogin ==
    \/ \E p \in Clients, raw \in TwoEmails, r \in OneDraw :
         send_verification_code(p, raw, r, "console")
    \/ \E p \in Clients, raw \in TwoEmails :
         /\ call[p].op = "send_code" /\ call[p].email = lower(raw)
         /\ verify_code_find(p, raw, call[p].code)
    \/ \E p \in Clients : verify_code_update(p)
    \/ \E p \in Clients, h \in Headers : get_provider_config(p, h)
    \/ \E p \in Clients, raw \in TwoEmails, u \in TokenBodies :
         update_user(p, ADMIN_PASSWORD, raw, u)
    \/ \E p \in Clients, raw \in TwoEmails :
         toggle_user_find(p, ADMIN_PASSWORD, raw)
    \/ \E p \in Clients : toggle_user_update(p)

SpecLogin == Init /\ [][NextLogin]_vars

\* SpecReuse: NumClients concurrent clients that log in to one account and
\* present the token they were given; no administrator acts
NextReuse ==
    \/ \E p \in Clients, raw \in OneEmail, r \in OneDraw :
         send_verification_code(p, raw, r, "console")
    \/ \E p \in Clients, raw \in OneEmail, r \in OneDraw :
         verify_code_find(p, raw, _generate_verification_code(r))
    \/ \E p \in Clients : verify_code_update(p)
    \/ \E p \in Clients :
         /\ call[p].op = "verify" /\ call[p].resp.status = 200
         /\ get_provider_config(p, Bearer \o call[p].resp.token)

SpecReuse == InitConc /\ [][NextReuse]_vars

\* SpecMail: one client, one account, the clock standing still; the delivery
\* of the email goes each way, and the administrator toggles and deletes the
\* account
NextMail ==
    \/ \E p \in Clients, raw \in OneEmail, r \in CodeDraws, smtp \in SmtpOutcomes :
         send_verification_code(p, raw, r, smtp)
    \/ \E p \in Clients, raw \in OneEmail, r \in CodeDraws :
         verify_code_find(p, raw, _generate_verification_code(r))
    \/ \E p \in Clients : verify_code_update(p)
    \/ \E p \in Clients, raw \in OneEmail :
         toggle_user_find(p, ADMIN_PASSWORD, raw)
    \/ \E p \in Clients : toggle_user_update(p)
    \/ \E p \in Clients, raw \in OneEmail : delete_user(p, ADMIN_PASSWORD, raw)

SpecMail == Init /\ [][NextMail]_vars

\* SpecIntruder: one client, two accounts; users log in, and every call of
\* the admin API carries an X-Admin-Password that is not the secret
WrongPasswords == {"guess", ""}

NextIntruder ==
    \/ \E p \in Clients, raw \in TwoEmails, r \in CodeDraws :
         send_verification_code(p, raw, r, "console")
    \/ \E p \in Clients, raw \in TwoEmails, r \in CodeDraws :
         verify_code_find(p, raw, _generate_verification_code(r))
    \/ \E p \in Clients : verify_code_update(p)
    \/ \E p \in Clients, pw \in WrongPasswords : get_stats_total(p, pw)
    \/ \E p \in Clients, pw \in WrongPasswords : list_users(p, pw)
    \/ \E p \in Clients, pw \in WrongPasswords, raw \in TwoEmails :
         get_user(p, pw, raw)
    \/ \E p \in Clients, pw \in WrongPasswords, raw \in TwoEmails,
          t \in AdminTokens, a \in BOOLEAN : create_user_find(p, pw, raw, t, a)
    \/ \E p \in Clients, pw \in WrongPasswords, raw \in TwoEmails :
         toggle_user_find(p, pw, raw)
    \/ \E p \in Clients, pw \in WrongPasswords, raw \in TwoEmails,
          u \in UpdateBodies : update_user(p, pw, raw, u)
    \/ \E p \in Clients, pw \in WrongPasswords, raw \in TwoEmails :
         delete_user(p, pw, raw)

SpecIntruder == Init /\ [][NextIntruder]_vars

\* SpecPadded: one client, one account, the clock standing still; every code
\* submitted to POST /auth/verify is a six-digit code with a blank before and
\* after it, so it is never the stored string
PaddedCodes ==
    {<<" ">> \o _generate_verification_code(r) \o <<" ">> : r \in CodeDraws}

NextPadded ==
    \/ \E p \in Clients, raw \in OneEmail, r \in CodeDraws :
         send_verification_code(p, raw, r, "console")
    \/ \E p \in Clients, raw \in OneEmail, c \in PaddedCodes :
         verify_code_find(p, raw, c)
    \/ \E p \in Clients : verify_code_update(p)
    \/ \E p \in Clients, raw \in OneEmail :
         toggle_user_find(p, ADMIN_PASSWORD, raw)
    \/ \E p \in Clients : toggle_user_update(p)
    \/ \E p \in Clients, raw \in OneEmail : delete_user(p, ADMIN_PASSWORD, raw)

SpecPadded == Init /\ [][NextPadded]_vars

\* SpecOnce: NumClients concurrent clients and one account for which a code
\* is requested once, when it has no record yet; the clients submit codes and
\* present the token they were given
NextOnce ==
    \/ \E p \in Clients, raw \in OneEmail, r \in CodeDraws :
         /\ users = {}
         /\ send_verification_code(p, raw, r, "console")
    \/ \E p \in Clients, raw \in OneEmail, r \in CodeDraws :
         verify_code_find(p, raw, _generate_verification_code(r))
    \/ \E p \in Clients : verify_code_update(p)
    \/ \E p \in Clients :
         /\ call[p].op = "verify" /\ call[p].resp.status = 200
         /\ get_provider_config(p, Bearer \o call[p].resp.token)

SpecOnce == InitConc /\ [][NextOnce]_vars

\* SpecToggle: NumClients concurrent requests on one account: codes are
\* requested and verified while administrators toggle the account
NextToggle ==
    \/ \E p \in Clients, raw \in OneEmail, r \in OneDraw :
         send_verification_code(p, raw, r, "console")
    \/ \E p \in Clients, raw \in OneEmail, r \in OneDraw :
         verify_code_find(p, raw, _generate_verification_code(r))
    \/ \E p \in Clients : verify_code_update(p)
    \/ \E p \in Clients, raw \in OneEmail :
         toggle_user_find(p, ADMIN_PASSWORD, raw)
    \/ \E p \in Clients : toggle_user_update(p)

SpecToggle == InitConc /\ [][NextToggle]_vars

\* SpecGone: NumClients concurrent requests on one account. Client 1 requests
\* and verifies codes and makes the calls that are a single write, client 2
\* toggles the account, and every client may delete it, so that a deleteUser
\* falls between the read and the write of a verifyCode or of a toggleActive
NextGone ==
    \/ \E p \in {1}, raw \in OneEmail, r \in OneDraw :
         send_verification_code(p, raw, r, "console")
    \/ \E p \in {1}, raw \in OneEmail, r \in OneDraw :
         verify_code_find(p, raw, _generate_verification_code(r))
    \/ \E p \in Clients : verify_code_update(p)
    \/ \E p \in {2}, raw \in OneEmail :
         toggle_user_find(p, ADMIN_PASSWORD, raw)
    \/ \E p \in Clients : toggle_user_update(p)
    \/ \E p \in {1}, raw \in OneEmail :
         update_user(p, ADMIN_PASSWORD, raw, [verified |-> FALSE])
    \/ \E p \in {1}, raw \in OneEmail : invalidate_token(p, raw)
    \/ \E p \in Clients, raw \in OneEmail : delete_user(p, ADMIN_PASSWORD, raw)

SpecGone == InitConc /\ [][NextGone]_vars

\* SpecServer: NumManagers cc-zol invocations sharing ~/.cc-zol, and the
\* uvicorn processes they spawn; the auth server is not involved
NextServer ==
    \/ \E m \in Managers : ServerManager_is_running(m)
    \/ \E m \in Managers : start_is_running(m)
    \/ \E m \in Managers : start_Popen(m)
    \/ \E m \in Managers : start_save_pid(m)
    \/ \E m \in Managers : start_save_port(m)
    \/ \E m \in Managers : wait_for_server_ready(m)
    \/ \E m \in Managers : wait_for_server_timeout(m)
    \/ \E m \in Managers : ServerManager_stop(m)
    \/ \E pid \in Pids : uvicorn_bind(pid)
    \/ \E pid \in Pids : uvicorn_exit(pid)

SpecServer == Init /\ [][NextServer]_vars


-----------------------------------------------------------------------------
(* Properties *)

TokenOf(d) == Get(d, "intercept_token", NoneStr)

VerifyOk(p) == call[p].op = "verify" /\ call[p].resp.status = 200

VerifyFailed(p) == call[p].op = "verify" /\ pc[p] = "ready" /\ call[p].resp.status # 200

InFlight(p) == pc[p] = "verify_update"

\* a step of client p alone
StepOf(p) ==
    /\ call'[p] # call[p] \/ pc'[p] # pc[p] \/ users' # users
    /\ \A q \in Clients \ {p} : call'[q] = call[q] /\ pc'[q] = pc[q]

\* the steps of client p that are the named actions
SendCodeStep(p) == Ready(p) /\ StepOf(p) /\ call'[p].op = "send_code"
VerifyFindStep(p) == Ready(p) /\ StepOf(p) /\ call'[p].op = "verify"
VerifyUpdateStep(p) == InFlight(p) /\ StepOf(p) /\ pc'[p] = "ready"

\* C1: two verifyCode calls for the same email and the same correct code that
\* are in flight at once (both have read the user, with no token yet, neither
\* has written) return the same token, which is then the token their writes
\* leave in the store.
C1_ConcurrentVerifySameToken ==
    \A p, q \in Clients :
        (/\ InFlight(p) /\ InFlight(q)
         /\ call[p].email = call[q].email
         /\ call[p].code = call[q].code
         /\ \A d \in call[p].found \cup call[q].found : ~Truthy(TokenOf(d)))
        => call[p].token = call[q].token

\* C2: the store write of verifyCode never changes a non-empty intercept_token
\* of the user to a different value.
C2_VerifyNeverOverwritesToken ==
    [][\A p \in Clients :
          VerifyUpdateStep(p) =>
              \A d \in ByEmail(users, call[p].email) :
                  Truthy(TokenOf(d)) =>
                      \A e \in ByEmail(users', call[p].email) :
                          TokenOf(e) = TokenOf(d)]_vars

\* C3: no two user records hold the same non-empty intercept_token.
C3_TokenUnique ==
    \A d1, d2 \in users :
        (d1 # d2 /\ Truthy(TokenOf(d1)) /\ Truthy(TokenOf(d2)))
        => TokenOf(d1) # TokenOf(d2)

InvalidCode == Resp(401, "Invalid or expired verification code")

Disabled(d) == "active" \in DOMAIN d /\ d["active"] = FALSE

\* C4: GET /auth/config answers 200 only with a user whose stored
\* intercept_token is exactly the presented token, whose verified is true and
\* whose active is not false; when every holder of the token is unverified or
\* disabled it finds no user and answers 401.
C4_ResolveOnlyVerifiedActive ==
    \A p \in Clients :
        (call[p].op = "config" /\ call[p].resp.detail # "Authorization header required")
        => /\ call[p].resp.status = 200 =>
                /\ call[p].found # {} /\ call[p].found \subseteq users
                /\ \A d \in call[p].found :
                       /\ TokenOf(d) = call[p].token
                       /\ User(d).verified
                       /\ ~Disabled(d)
           /\ (\A d \in users :
                   ("intercept_token" \in DOMAIN d /\ d["intercept_token"] = call[p].token)
                   => (~User(d).verified \/ Disabled(d)))
              => (call[p].found = {} /\ call[p].resp.status = 401)

\* a token held by an unverified pre-provisioned user was presented and refused
C4_Witness ==
    \E p \in Clients :
        /\ call[p].op = "config" /\ call[p].resp.status = 401
        /\ Truthy(call[p].token)
        /\ \E d \in users : TokenOf(d) = call[p].token /\ ~User(d).verified

\* C5: verifyCode on a user whose active is explicitly false fails with
\* InvalidCode and leaves the record as it was, whatever code was submitted and
\* whether or not the user holds a token.
C5_InactiveVerifyFails ==
    \A p \in Clients :
        (call[p].op = "verify" /\ \E d \in call[p].found : Disabled(d))
        => /\ pc[p] = "ready"
           /\ call[p].resp = InvalidCode
           /\ call[p].found \subseteq users

\* a disabled pre-provisioned user submitted the stored, unexpired code
C5_Witness ==
    \E p \in Clients :
        /\ call[p].op = "verify"
        /\ \E d \in call[p].found :
               /\ Disabled(d) /\ Truthy(TokenOf(d))
               /\ User(d).verification_code = call[p].code
               /\ call[p].at <= User(d).verification_code_expires

FailureCauses == {"no_user", "inactive", "no_code", "wrong_code", "expired"}

\* C6: whichever of the five preconditions fails, POST /auth/verify answers
\* with the same response: 401, "Invalid or expired verification code".
C6_UniformFailure ==
    \A p \in Clients :
        (call[p].op = "verify" /\ call[p].cause \in FailureCauses)
        => (pc[p] = "ready" /\ call[p].resp = InvalidCode)

\* the correct code of an active user was refused as expired
C6_Witness ==
    \E p \in Clients : call[p].op = "verify" /\ call[p].cause = "expired"

\* the code submitted is the one stored for an active user
CorrectCode(p, d) ==
    /\ User(d).active
    /\ Truthy(User(d).verification_code)
    /\ User(d).verification_code = call[p].code
    /\ User(d).verification_code_expires # NoneTime

\* C7: requestCode stores expiry = request time + 10 minutes; verifyCode with
\* the correct code of an active user passes its checks when now <= expiry and
\* fails with InvalidCode when now > expiry.
C7_ExpiryBoundary ==
    \A p \in Clients :
        /\ call[p].op = "send_code" =>
               \A d \in ByEmail(users, call[p].email) :
                   d["verification_code_expires"] = call[p].at + 10
        /\ call[p].op = "verify" =>
               \A d \in call[p].found :
                   CorrectCode(p, d) =>
                       IF call[p].at <= User(d).verification_code_expires
                       THEN /\ call[p].cause = "ok"
                            /\ pc[p] = "ready" => call[p].resp.status = 200
                       ELSE pc[p] = "ready" /\ call[p].resp = InvalidCode

\* a verification exactly at the expiry succeeded
C7_Witness ==
    \E p \in Clients :
        /\ VerifyOk(p)
        /\ \E d \in call[p].found :
               CorrectCode(p, d) /\ call[p].at = User(d).verification_code_expires

\* a verifyCode that starts after a successful verifyCode with the same email
\* and code has completed, with no requestCode in between and before the expiry
Repeated(p) ==
    /\ VerifyFindStep(p)
    /\ Truthy(call'[p].code)
    /\ consumed[call'[p].email].code = call'[p].code
    /\ now <= consumed[call'[p].email].expires

\* C8 as claimed: the repeated verifyCode succeeds too.
C8_RepeatedVerifySucceeds ==
    [][\A p \in Clients : Repeated(p) => call'[p].cause = "ok"]_vars

\* C8 as amended: the repeated verifyCode fails with InvalidCode and leaves the
\* store unchanged, because the first one cleared the code.
C8_RepeatedVerifyFails ==
    [][\A p \in Clients :
          Repeated(p) =>
              /\ pc'[p] = "ready"
              /\ call'[p].resp = InvalidCode
              /\ users' = users]_vars

\* a verifyCode was refused for the code that the verification before it used
C8_Witness ==
    \E p \in Clients :
        /\ VerifyFailed(p)
        /\ Truthy(call[p].code)
        /\ consumed[call[p].email].code = call[p].code
        /\ call[p].at <= consumed[call[p].email].expires
        /\ call[p].found # {}

\* C9: after a successful verifyCode the record holds the returned token,
\* verified = true, no code and no expiry, and last_logged_in = the time of the
\* call; the token is the one stored before if that was non-empty, else the
\* newly generated one.
C9_VerifySuccessEffect ==
    \A p \in Clients :
        VerifyOk(p) =>
            /\ \E d \in users :
                   /\ d["email"] = call[p].email
                   /\ TokenOf(d) = call[p].resp.token
                   /\ User(d).verified
                   /\ User(d).verification_code = NoneStr
                   /\ User(d).verification_code_expires = NoneTime
                   /\ User(d).last_logged_in = call[p].at
            /\ \A old \in call[p].found :
                   call[p].resp.token =
                       IF TokenOf(old) # NoneStr /\ TokenOf(old) # EmptyStr
                       THEN TokenOf(old)
                       ELSE zfill(ntok, 16, 64)

\* a user whose token was the empty string verified and got a generated token
C9_Witness ==
    \E p \in Clients :
        /\ VerifyOk(p)
        /\ \E old \in call[p].found :
               "intercept_token" \in DOMAIN old /\ old["intercept_token"] = EmptyStr

KeptFields == {"email", "active", "verified", "intercept_token", "created_at",
               "last_logged_in"}

SameField(d, e, k) ==
    /\ k \in DOMAIN d <=> k \in DOMAIN e
    /\ k \in DOMAIN d => d[k] = e[k]

\* C10: requestCode on an existing record changes nothing but
\* verification_code and verification_code_expires, adds and removes no record,
\* and every token resolves afterwards to the users it resolved to before.
C10_RequestCodeFrame ==
    [][\A p \in Clients :
          (SendCodeStep(p) /\ ByEmail(users, call'[p].email) # {}) =>
              /\ Cardinality(users') = Cardinality(users)
              /\ \A d \in users : \E e \in users' :
                     /\ \A k \in KeptFields : SameField(d, e, k)
                     /\ d["email"] # call'[p].email => e = d
              /\ \A t \in KnownTokens :
                     {d["email"] : d \in TokenQuery(users', t)}
                         = {d["email"] : d \in TokenQuery(users, t)}]_vars

\* a code was requested again for a verified user that holds a token
C10_Witness ==
    \E p \in Clients :
        /\ call[p].op = "send_code"
        /\ \E d \in users :
               /\ d["email"] = call[p].email
               /\ User(d).verification_code = call[p].code
               /\ User(d).verified /\ Truthy(TokenOf(d))
               /\ User(d).last_logged_in # NoneTime

\* C11: requestCode for an email that has no record adds exactly one record,
\* for the lowercase email, which reads as verified = false and active = true
\* (the field is absent, which the model and the token query take as true),
\* with created_at = now, the new code and its expiry now + 10, and without an
\* intercept_token.
C11_RequestCodeCreates ==
    [][\A p \in Clients :
          (SendCodeStep(p) /\ ByEmail(users, call'[p].email) = {}) =>
              \E d \in users' :
                  /\ users' = users \cup {d} /\ d \notin users
                  /\ d["email"] = call'[p].email
                  /\ d["email"] = lower(d["email"])
                  /\ "verified" \in DOMAIN d /\ d["verified"] = FALSE
                  /\ User(d).active = TRUE /\ ~Disabled(d)
                  /\ "created_at" \in DOMAIN d /\ d["created_at"] = now
                  /\ User(d).verification_code = call'[p].code
                  /\ User(d).verification_code_expires
                         = now + VERIFICATION_CODE_EXPIRY_MINUTES
                  /\ "intercept_token" \notin DOMAIN d
                  /\ User(d).last_logged_in = NoneTime]_vars

\* a code request created the record after the clock had advanced
C11_Witness ==
    \E p \in Clients :
        /\ call[p].op = "send_code" /\ call[p].at > 0
        /\ \E d \in users :
               /\ d["email"] = call[p].email
               /\ d["created_at"] = call[p].at
               /\ "intercept_token" \notin DOMAIN d

\* the code and the expiry that the verifyCode of client p read and checked
Checked(p) ==
    LET user == User(CHOOSE d \in call[p].found : TRUE) IN
    <<user.verification_code, user.verification_code_expires>>

\* C12: verifyCode never clears a code it did not check: when its write runs
\* and the record holds a code that a requestCode stored after the
\* verifyCode read the record, that code and its expiry are still stored
\* afterwards.
C12_NoLostCode ==
    [][\A p \in Clients :
          VerifyUpdateStep(p) =>
              \A d \in ByEmail(users, call[p].email) :
                  (/\ Truthy(User(d).verification_code)
                   /\ <<User(d).verification_code,
                        User(d).verification_code_expires>> # Checked(p))
                  => \E e \in ByEmail(users', call[p].email) :
                         /\ User(e).verification_code = User(d).verification_code
                         /\ User(e).verification_code_expires
                                = User(d).verification_code_expires]_vars

\* C13: in the answer of listUsers every user that holds a token has an entry
\* with has_token = true whose token field is the first 8 characters of the
\* token followed by an ellipsis, and the complete token is not to be read off
\* that field; every user without a token has has_token = false.
C13_ListNeverShowsToken ==
    \A p \in Clients :
        (call[p].op = "list" /\ call[p].resp.status = 200) =>
            \A d \in users :
                \E e \in call[p].found :
                    /\ e["email"] = d["email"]
                    /\ IF Truthy(TokenOf(d))
                       THEN /\ e["has_token"] = TRUE
                            /\ e["intercept_token"] = Prefix(TokenOf(d), 8) \o Ellipsis
                            /\ ~startswith(e["intercept_token"], TokenOf(d))
                       ELSE e["has_token"] = FALSE

\* a step of client p that is an updateUser call which passed verify_admin
UpdateStep(p) ==
    /\ Ready(p) /\ StepOf(p)
    /\ call'[p].op = "update" /\ call'[p].resp.status # 401

\* the body carries a non-empty intercept_token
SetsToken(body) ==
    "intercept_token" \in DOMAIN body /\ Truthy(body["intercept_token"])

\* C14: updateUser with a non-empty intercept_token leaves the user with that
\* token and verified = true, also when the same body says verified = false;
\* with an empty or absent token, verified is what the body says, and is
\* unchanged when the body does not say.
C14_TokenImpliesVerified ==
    [][\A p \in Clients :
          UpdateStep(p) =>
              LET body == call'[p].body
                  email == call'[p].email IN
              \A d \in ByEmail(users, email) :
                  \E e \in ByEmail(users', email) :
                      IF SetsToken(body)
                      THEN /\ "verified" \in DOMAIN e /\ e["verified"] = TRUE
                           /\ TokenOf(e) = body["intercept_token"]
                      ELSE IF "verified" \in DOMAIN body
                      THEN "verified" \in DOMAIN e /\ e["verified"] = body["verified"]
                      ELSE SameField(d, e, "verified")]_vars

\* an unverified user was given a token by a body that says verified = false
C14_Witness ==
    \E p \in Clients :
        /\ call[p].op = "update" /\ call[p].resp.status = 200
        /\ SetsToken(call[p].body)
        /\ "verified" \in DOMAIN call[p].body /\ call[p].body["verified"] = FALSE
        /\ \E d \in ByEmail(users, call[p].email) :
               User(d).verified /\ TokenOf(d) = call[p].body["intercept_token"]

\* C15: updateUser with a non-empty allowed field set answers NotFound exactly
\* when no record has the email, and answers success for an existing record,
\* also when the values supplied are the ones stored.
C15_NotFoundIffNoRecord ==
    \A p \in Clients :
        (/\ call[p].op = "update" /\ call[p].resp.status # 401
         /\ DOMAIN call[p].body \cap AllowedFields # {})
        => /\ call[p].resp.status = 404 <=> ByEmail(users, call[p].email) = {}
           /\ ByEmail(users, call[p].email) # {} => call[p].resp.status = 200

FrameFields == {"email", "created_at", "last_logged_in", "verification_code",
                "verification_code_expires"}

\* C16: updateUser changes at most active, verified and intercept_token of the
\* user addressed: its other fields, the other users and the number of records
\* stay as they were, keys of the body outside the allow-list have no effect,
\* and a body with no allowed key is answered 400 and changes nothing.
C16_UpdateFrame ==
    [][\A p \in Clients :
          UpdateStep(p) =>
              LET body == call'[p].body
                  email == call'[p].email IN
              /\ \A d \in users \cup users' :
                     d["email"] # email => (d \in users /\ d \in users')
              /\ Cardinality(users') = Cardinality(users)
              /\ \A d \in ByEmail(users, email) :
                     \E e \in ByEmail(users', email) :
                         /\ \A k \in FrameFields : SameField(d, e, k)
                         /\ \A k \in DOMAIN d \cup DOMAIN e :
                                ~SameField(d, e, k) =>
                                    /\ k \in AllowedFields
                                    /\ k \in DOMAIN body \/ (k = "verified" /\ SetsToken(body))
              /\ DOMAIN body \cap AllowedFields = {} =>
                     (users' = users /\ call'[p].resp.status = 400)]_vars

\* a body that also names email and created_at disabled one of two users
C16_Witness ==
    \E p \in Clients :
        /\ call[p].op = "update" /\ call[p].resp.status = 200
        /\ "email" \in DOMAIN call[p].body
        /\ call[p].body["email"] # call[p].email
        /\ \E d \in ByEmail(users, call[p].email) : Disabled(d)
        /\ \E d \in users : d["email"] # call[p].email

\* a step of client p that ends a createPreconfigured call which passed
\* verify_admin
CreateDoneStep(p) ==
    /\ StepOf(p) /\ pc'[p] = "ready"
    /\ call'[p].op = "create" /\ call'[p].resp.status # 401

\* C17: createPreconfigured ends in one of two ways, whatever requestCode or
\* createPreconfigured calls for the same email run beside it: Conflict (400),
\* a record for the email existing and the store left as it was; or created
\* (200), one record having been inserted with the given token, verified =
\* false and active as given.
C17_CreateTwoOutcomes ==
    [][\A p \in Clients :
          CreateDoneStep(p) =>
              \/ /\ call'[p].resp = Resp(400, "User already exists")
                 /\ ByEmail(users, call'[p].email) # {}
                 /\ users' = users
              \/ /\ call'[p].resp.status = 200
                 /\ \E d \in call[p].found :
                        /\ d \notin users /\ users' = users \cup {d}
                        /\ d["email"] = call'[p].email
                        /\ d["verified"] = FALSE]_vars

\* in SpecProv createPreconfigured alone writes the active field, and the
\* tokens it is given are not among those verifyCode generates: a record with
\* the field and such a token, not empty, is a pre-provisioned one that holds
\* the token of its creation
Provisioned(d) ==
    /\ "active" \in DOMAIN d
    /\ Truthy(TokenOf(d))
    /\ TokenOf(d) \in AdminTokens
    /\ \A r \in 1..MaxGen : TokenOf(d) # _generate_token(r)

\* C18: a pre-provisioned record with a non-empty token t holds t after every
\* step of requestCode and verifyCode, and every verifyCode on it that
\* succeeds returns t, never a generated token.
C18_ProvisionedTokenReturned ==
    [][\A d \in users :
          Provisioned(d) =>
              /\ \E e \in users' :
                     /\ e["email"] = d["email"] /\ Provisioned(e)
                     /\ TokenOf(e) = TokenOf(d)
              /\ \A p \in Clients :
                     (VerifyUpdateStep(p) /\ call[p].email = d["email"]) =>
                         /\ call'[p].resp.status = 200
                         /\ call'[p].resp.token = TokenOf(d)]_vars

\* two verifications of a user pre-provisioned as active were in flight at
\* once, and one has returned the token of the creation
C18_Witness ==
    \E p, q \in Clients :
        /\ VerifyOk(p) /\ InFlight(q) /\ call[q].email = call[p].email
        /\ \E d \in ByEmail(users, call[p].email) :
               /\ Provisioned(d) /\ d["active"] = TRUE
               /\ TokenOf(d) = call[p].resp.token
               /\ User(d).last_logged_in # NoneTime

\* a step of client p that starts toggleActive or deleteUser, verify_admin
\* passed, on an email that has no record
AbsentStep(p) ==
    /\ Ready(p) /\ StepOf(p)
    /\ call'[p].op \in {"toggle", "delete"} /\ call'[p].resp.status # 401
    /\ ByEmail(users, call'[p].email) = {}

\* C19: toggleActive and deleteUser on an email that has no record answer
\* NotFound (404) at once and leave the store as it was: no record is created.
C19_AbsentNotFound ==
    [][\A p \in Clients :
          AbsentStep(p) =>
              /\ pc'[p] = "ready"
              /\ call'[p].resp = Resp(404, "User not found")
              /\ users' = users]_vars

\* toggleActive was answered NotFound for one account while the other exists
C19_Witness ==
    \E p \in Clients :
        /\ call[p].op = "toggle" /\ call[p].resp.status = 404
        /\ ByEmail(users, call[p].email) = {}
        /\ users # {}

\* the last call of client p was a deleteUser that succeeded
Deleted(p) == Ready(p) /\ call[p].op = "delete" /\ call[p].resp.status = 200

\* C20: once deleteUser(e) has succeeded there is no record for e, and the next
\* call answers accordingly: getUserDetail(e) NotFound, verifyCode(e, code)
\* InvalidCode, and the token that the deleted record held resolves to no user.
C20_DeletedIsGone ==
    [][\A p \in Clients :
          (Deleted(p) /\ StepOf(p)) =>
              /\ ByEmail(users, call[p].email) = {}
              /\ (call'[p].op = "detail" /\ call'[p].email = call[p].email
                    /\ call'[p].resp.status # 401)
                 => call'[p].resp = Resp(404, "User not found")
              /\ (call'[p].op = "verify" /\ call'[p].email = call[p].email)
                 => (pc'[p] = "ready" /\ call'[p].resp = InvalidCode)
              /\ (call'[p].op = "config"
                    /\ \E d \in call[p].found :
                           Truthy(TokenOf(d)) /\ call'[p].token = TokenOf(d))
                 => call'[p].resp.status = 401]_vars

\* the answer of a stats() call of client p that has run all its queries
StatsDone(p) ==
    call[p].op = "stats" /\ pc[p] = "ready" /\ call[p].resp.status = 200

\* C21: with nothing else changing the store while stats() runs, it reports
\* total_users = the number of records, active_users = the records whose
\* active is absent or true, inactive_users = those whose active is false,
\* verified_users = those with verified = true; so total = active + inactive.
C21_StatsCounts ==
    \A p \in Clients :
        StatsDone(p) =>
            LET st == call[p].stats IN
            /\ st.total_users = Cardinality(users)
            /\ st.active_users =
                   Cardinality({d \in users : "active" \notin DOMAIN d \/ d["active"] = TRUE})
            /\ st.inactive_users =
                   Cardinality({d \in users : "active" \in DOMAIN d /\ d["active"] = FALSE})
            /\ st.verified_users = Cardinality({d \in users : User(d).verified})
            /\ st.total_users = st.active_users + st.inactive_users

\* the statistics of two users, one disabled, the other enabled by default
\* and verified
C21_Witness ==
    \E p \in Clients :
        /\ StatsDone(p)
        /\ call[p].stats.inactive_users = 1
        /\ call[p].stats.verified_users = 1
        /\ \E d \in users : "active" \notin DOMAIN d /\ User(d).verified

\* C22: every stats() result has verified_users <= total_users, also when
\* other calls change the store between its counting queries.
C22_VerifiedAtMostTotal ==
    \A p \in Clients :
        StatsDone(p) => call[p].stats.verified_users <= call[p].stats.total_users

\* C23: in every state every record has a verification_code exactly when it
\* has a verification_code_expires (absent and None both count as not having
\* it), whichever of requestCode, verifyCode, seed_user, createPreconfigured,
\* updateUser, toggleActive and deleteUser have run.
C23_CodeIffExpiry ==
    \A d \in users :
        (Get(d, "verification_code", NoneStr) # NoneStr)
        <=> (Get(d, "verification_code_expires", NoneTime) # NoneTime)

\* a seeded or preconfigured user asked for a code, then verified it: the
\* record has had no code, then a code and its expiry, then both cleared
C23_Witness ==
    \E p \in Clients :
        /\ VerifyOk(p)
        /\ \E d \in ByEmail(users, call[p].email) :
               /\ "active" \in DOMAIN d /\ TokenOf(d) \in AdminTokens
               /\ "verification_code" \in DOMAIN d
               /\ d["verification_code"] = NoneStr
               /\ d["verification_code_expires"] = NoneTime

\* C24: in every state no two records have the same email and every stored
\* email is lowercase; a call given the email in another letter case works on
\* the lowercase email and on the one record that has it.
C24_EmailCaseInsensitive ==
    /\ \A d1, d2 \in users : d1["email"] = d2["email"] => d1 = d2
    /\ \A d \in users :
           \A i \in 1..Len(d["email"]) : d["email"][i] \notin {"A", "B"}
    /\ \A p \in Clients :
           /\ \A i \in 1..Len(call[p].email) : call[p].email[i] \notin {"A", "B"}
           /\ call[p].op \in {"verify", "detail", "toggle", "delete", "seed"} =>
                  \A d \in call[p].found : d["email"] = call[p].email
           /\ (pc[p] = "ready" /\ call[p].op \in {"detail", "toggle", "update"}
                 /\ call[p].resp.status = 200) =>
                  ByEmail(users, call[p].email) # {}

\* the record that requestCode("A") created was verified by verifyCode("a")
C24_Witness ==
    \E p \in Clients :
        /\ VerifyOk(p)
        /\ \E d \in ByEmail(users, call[p].email) :
               "active" \notin DOMAIN d /\ User(d).verified

\* the account of email e is absent or not disabled
Enabled(e) == \A d \in ByEmail(users, e) : ~Disabled(d)

\* C25: requestCode(e) on an account that is absent or not disabled, followed
\* at once by verifyCode(e, the returned code), succeeds with a token t, and
\* resolveToken(t) then returns the user e.
C25_RequestVerifyResolve ==
    [][\A p \in Clients :
          StepOf(p) =>
              /\ (Ready(p) /\ call[p].op = "send_code" /\ Enabled(call[p].email)
                    /\ call'[p].op = "verify" /\ call'[p].email = call[p].email
                    /\ call'[p].code = call[p].code)
                 => pc'[p] = "verify_update"
              /\ (InFlight(p) /\ pc'[p] = "ready")
                 => (call'[p].resp.status = 200 /\ Truthy(call'[p].resp.token))
              /\ (Ready(p) /\ VerifyOk(p) /\ call'[p].op = "config"
                    /\ call'[p].token = call[p].resp.token)
                 => /\ call'[p].resp.status = 200
                    /\ \A d \in call'[p].found : d["email"] = call[p].email]_vars

\* the code stored for the record d
CodeOf(d) == User(d).verification_code

\* C26: requestCode stores the code it returns in place of the pending one and
\* no other call stores a code, so the stored code is the one of the most
\* recent requestCode; verifyCode passes its checks with that code only, and
\* with another code while one is pending it fails with InvalidCode.
C26_LatestCodeOnly ==
    [][\A p \in Clients :
          StepOf(p) =>
              /\ SendCodeStep(p) =>
                     /\ ByEmail(users', call'[p].email) # {}
                     /\ \A d \in ByEmail(users', call'[p].email) :
                            CodeOf(d) = call'[p].code
              /\ ~SendCodeStep(p) =>
                     \A e \in users' :
                         Truthy(CodeOf(e)) =>
                             \E d \in ByEmail(users, e["email"]) : CodeOf(d) = CodeOf(e)
              /\ VerifyFindStep(p) =>
                     /\ call'[p].cause = "ok" =>
                            \E d \in ByEmail(users, call'[p].email) :
                                CodeOf(d) = call'[p].code
                     /\ (\E d \in ByEmail(users, call'[p].email) :
                            Truthy(CodeOf(d)) /\ CodeOf(d) # call'[p].code)
                        => (pc'[p] = "ready" /\ call'[p].resp = InvalidCode)]_vars

\* a record made by a requestCode, its code replaced by a later requestCode,
\* refused the other code before the expiry
C26_Witness ==
    \E p \in Clients :
        /\ VerifyFailed(p) /\ call[p].cause = "wrong_code"
        /\ call[p].code \in {_generate_verification_code(r) : r \in CodeDraws}
        /\ \E d \in ByEmail(users, call[p].email) :
               /\ d \in call[p].found
               /\ "active" \notin DOMAIN d
               /\ d["verification_code_expires"] > d["created_at"] + 10
               /\ call[p].at <= d["verification_code_expires"]

\* C27: a verifyCode that fails, whichever check refused it, answers
\* InvalidCode and leaves every record as it was (an expired code stays
\* stored); the verifyCode that follows failed attempts with the stored code of
\* an active user, not later than its expiry, passes the checks.
C27_FailedVerifyFrame ==
    [][\A p \in Clients :
          (StepOf(p) /\ VerifyFindStep(p)) =>
              /\ call'[p].cause # "ok" =>
                     /\ users' = users
                     /\ pc'[p] = "ready" /\ call'[p].resp = InvalidCode
              /\ (VerifyFailed(p) /\ call[p].email = call'[p].email
                    /\ \E d \in ByEmail(users, call'[p].email) :
                           /\ User(d).active /\ Truthy(CodeOf(d))
                           /\ CodeOf(d) = call'[p].code
                           /\ now <= User(d).verification_code_expires)
                 => call'[p].cause = "ok"]_vars

\* the correct code was refused as expired and is still stored, with its
\* expiry, on the record that was read
C27_Witness ==
    \E p \in Clients :
        /\ VerifyFailed(p) /\ call[p].cause = "expired"
        /\ call[p].found # {} /\ call[p].found \subseteq users
        /\ \A d \in call[p].found :
               CodeOf(d) = call[p].code /\ User(d).verification_code_expires < call[p].at

\* the last call of client p was a toggleActive that answered new_status
Toggled(p, new_status) ==
    /\ Ready(p) /\ call[p].op = "toggle"
    /\ call[p].resp = Resp(200, IF new_status THEN "active: true" ELSE "active: false")

\* the token of the verified user that client p has just toggled, if any
ToggledTokens(p) ==
    {TokenOf(d) : d \in {x \in ByEmail(users, call[p].email) :
                            User(x).verified /\ Truthy(TokenOf(x))}}

\* C28: toggleActive changes active alone, the token and the verified flag
\* staying; once a verified user with token t is disabled, resolveToken(t)
\* returns none and verifyCode fails; once enabled again, resolveToken(t)
\* returns that user.
C28_ToggleRoundTrip ==
    [][\A p \in Clients :
          StepOf(p) =>
              /\ (pc[p] = "toggle_update" /\ pc'[p] = "ready") =>
                     \A d \in ByEmail(users, call[p].email) :
                         \E e \in ByEmail(users', call[p].email) :
                             /\ TokenOf(e) = TokenOf(d)
                             /\ User(e).verified = User(d).verified
                             /\ User(e).active = ~User(d).active
              /\ (Toggled(p, FALSE) /\ call'[p].op = "config"
                    /\ call'[p].token \in ToggledTokens(p))
                 => call'[p].resp.status = 401
              /\ (Toggled(p, FALSE) /\ ToggledTokens(p) # {}
                    /\ call'[p].op = "verify" /\ call'[p].email = call[p].email)
                 => (pc'[p] = "ready" /\ call'[p].resp = InvalidCode)
              /\ (Toggled(p, TRUE) /\ call'[p].op = "config"
                    /\ call'[p].token \in ToggledTokens(p))
                 => /\ call'[p].resp.status = 200
                    /\ call'[p].found = ByEmail(users, call[p].email)]_vars

\* the record d holds a token that a verifyCode has issued or confirmed
Issued(d) == User(d).verified /\ Truthy(TokenOf(d))

\* C29: with no administrator acting, resolveToken leaves the store as it is,
\* the token of a verified user stays the stored one at every step, and a
\* verifyCode that reads it hands out that same token.
C29_NoRotation ==
    [][\A p \in Clients :
          StepOf(p) =>
              /\ call'[p].op = "config" => users' = users
              /\ \A d \in users :
                     Issued(d) =>
                         \A e \in ByEmail(users', d["email"]) : TokenOf(e) = TokenOf(d)
              /\ (VerifyFindStep(p) /\ call'[p].cause = "ok") =>
                     \A d \in ByEmail(users, call'[p].email) :
                         Issued(d) => call'[p].token = TokenOf(d)]_vars

\* C30: POST /auth/send-code answers 200 "Verification code sent" whatever
\* record the email had before the call: none, a pending one, a verified one
\* or a disabled one.
C30_SendCodeUniform ==
    [][\A p \in Clients :
          SendCodeStep(p) =>
              /\ pc'[p] = "ready"
              /\ call'[p].resp = Resp(200, "Verification code sent")
              /\ \A q \in Clients :
                     call[q].op = "send_code" => call'[p].resp = call[q].resp]_vars

\* a code was requested for a verified user whom the administrator disabled,
\* after one was requested for an email that had no record
C30_Witness ==
    \E p \in Clients :
        /\ call[p].op = "send_code"
        /\ \E d \in ByEmail(users, call[p].email) :
               /\ Disabled(d) /\ Issued(d)
               /\ "active" \in DOMAIN d /\ "created_at" \in DOMAIN d
               /\ CodeOf(d) = call[p].code

\* C31: once the code is stored, POST /auth/send-code answers 200
\* "Verification code sent" whether the email was delivered or not, and the
\* verifyCode that follows with that code, on an account that is not
\* disabled, passes the checks.
C31_DeliveryFailureHarmless ==
    [][\A p \in Clients :
          StepOf(p) =>
              /\ SendCodeStep(p) =>
                     /\ call'[p].resp = Resp(200, "Verification code sent")
                     /\ \E d \in ByEmail(users', call'[p].email) :
                            /\ CodeOf(d) = call'[p].code
                            /\ User(d).verification_code_expires = now + 10
              /\ (Ready(p) /\ call[p].op = "send_code" /\ Enabled(call[p].email)
                    /\ VerifyFindStep(p) /\ call'[p].email = call[p].email
                    /\ call'[p].code = call[p].code)
                 => call'[p].cause = "ok"]_vars

\* smtplib raised during a send-code, which answered 200 with the code stored
C31_Witness ==
    \E p \in Clients :
        /\ call[p].op = "send_code" /\ call[p].cause = "failed"
        /\ call[p].resp.status = 200
        /\ \E d \in ByEmail(users, call[p].email) :
               CodeOf(d) = call[p].code /\ ~Disabled(d) /\ Issued(d)

\* the operations of /admin/api
AdminOps == {"stats", "list", "detail", "create", "toggle", "update", "delete"}

\* C32: a call of /admin/api without the admin secret is answered 401
\* "Invalid admin password" at once; it carries no user data and leaves every
\* record as it was.
C32_AdminNeedsSecret ==
    [][\A p \in Clients :
          (StepOf(p) /\ call'[p].op \in AdminOps) =>
              /\ call'[p] = Unauthorized(call'[p].op)
              /\ call'[p].resp.status = 401
              /\ call'[p].found = {} /\ call'[p].stats = NoStats
              /\ pc'[p] = "ready"
              /\ users' = users]_vars

\* a delete without the secret was refused while a verified user with a token
\* is stored
C32_Witness ==
    \E p \in Clients :
        /\ call[p].op = "delete" /\ call[p].resp.status = 401
        /\ \E d \in users : Issued(d)

\* C33: a submitted code that is not the stored string, character for
\* character, fails with InvalidCode at POST /auth/verify; under SpecPadded
\* every submitted code has a blank before and after the digits, so every
\* verifyCode fails and writes nothing.
C33_ExactCodeMatch ==
    [][\A p \in Clients :
          VerifyFindStep(p) =>
              /\ pc'[p] = "ready"
              /\ call'[p].resp = InvalidCode
              /\ users' = users]_vars

\* C34: a code is used at most once; under SpecOnce a single code is issued,
\* so at most one client has a verifyCode that succeeded.
C34_CodeOneTime ==
    \A p, q \in Clients :
        (VerifyOk(p) /\ VerifyOk(q) /\ call[p].code = call[q].code) => p = q

\* the step of client p that completes a toggleActive
ToggleUpdateStep(p) == pc[p] = "toggle_update" /\ StepOf(p) /\ pc'[p] = "ready"

\* C35: the store write of every toggleActive flips the active flag that is
\* stored at that moment, and the call returns the value stored as a result.
C35_ToggleFlipsOnce ==
    [][\A p \in Clients :
          ToggleUpdateStep(p) =>
              \A d \in ByEmail(users, call[p].email) :
                  \E e \in ByEmail(users', call[p].email) :
                      /\ User(e).active = ~User(d).active
                      /\ call'[p].resp =
                            Resp(200, IF User(e).active THEN "active: true"
                                      ELSE "active: false")]_vars

\* a step that client p may have taken: the other clients are where they
\* were, and p has moved on or was free to start a call
Acting(p) ==
    /\ \A q \in Clients \ {p} : call'[q] = call[q] /\ pc'[q] = pc[q]
    /\ pc'[p] # pc[p] \/ pc[p] = "ready"

\* the emails that have a record
Emails(coll) == {d["email"] : d \in coll}

\* C36: a step that adds the record of an email is the store write of
\* requestCode, createPreconfigured or seed_user, and a step that removes one
\* is deleteUser; so the store write of a verifyCode or toggleActive that lands
\* after a deleteUser leaves the user deleted.
C36_CreateDeleteOnlyBy ==
    [][/\ Emails(users') \ Emails(users) # {} =>
              \E p \in Clients :
                  Acting(p) /\ call'[p].op \in {"send_code", "create", "seed"}
       /\ Emails(users) \ Emails(users') # {} =>
              \E p \in Clients : Acting(p) /\ call'[p].op = "delete"
       /\ \A p \in Clients :
              (pc[p] \in {"verify_update", "toggle_update"} /\ pc'[p] = "ready"
                 /\ ByEmail(users, call[p].email) = {})
              => users' = users]_vars

\* a deleteUser has removed the very record that a verifyCode had read, the
\* verifyCode has answered 200, and no record is left
C36_Witness ==
    \E p, q \in Clients :
        /\ VerifyOk(p) /\ call[p].found # {}
        /\ Deleted(q) /\ call[q].found = call[p].found
        /\ users = {}

\* C37: when the store write of a verifyCode that returns the token t takes
\* effect, the record of the email exists, is not disabled, and holds
\* intercept_token = t with verified = true.
C37_VerifyReturnsStoredToken ==
    [][\A p \in Clients :
          (pc[p] = "verify_update" /\ pc'[p] = "ready"
             /\ call'[p].resp.status = 200)
          => \E d \in ByEmail(users', call[p].email) :
                 /\ ~Disabled(d)
                 /\ TokenOf(d) = call'[p].resp.token
                 /\ User(d).verified]_vars

\* the step of client p that is an invalidate_token
InvalidateStep(p) ==
    Ready(p) /\ call'[p] # call[p] /\ call'[p].op = "invalidate"

\* C38: invalidate_token(email) returns True exactly when a record for the
\* email existed; after it the record has no token and verified = false, and
\* the token held before resolves to no user.
C38_InvalidateReturnsExisted ==
    [][\A p \in Clients :
          InvalidateStep(p) =>
              /\ call'[p].resp.detail =
                     (IF ByEmail(users, call'[p].email) # {} THEN "True" ELSE "False")
              /\ \A d \in ByEmail(users', call'[p].email) :
                     ~Truthy(TokenOf(d)) /\ ~User(d).verified
              /\ \A d \in ByEmail(users, call'[p].email) :
                     Truthy(TokenOf(d)) => TokenQuery(users', TokenOf(d)) = {}]_vars

\* C39: no entry of the answer of listUsers carries a verification code that
\* verifyCode would accept for that user at that moment (the user is not
\* disabled, the code is the stored one and has not expired).
C39_ListShowsNoLiveCode ==
    \A p \in Clients :
        (call[p].op = "list" /\ call[p].resp.status = 200) =>
            \A e \in call[p].found :
                \A d \in ByEmail(users, e["email"]) :
                    ~(/\ "verification_code" \in DOMAIN e
                      /\ verify_code_check({d}, e["verification_code"], now) = "ok")

\* a spawned process whose start() stands between Popen and the second save
BeingSaved(pid) ==
    \E m \in Managers :
        mgr[m].pc \in {"popened", "pid_saved"} /\ mgr[m].pid = pid

\* C40: every live process that start() spawned and recorded is the one the
\* PID and port files name, and no two spawned processes are alive at once.
C40_SpawnedStayTracked ==
    /\ \A pid \in Pids :
          (ProcessExists(procs, pid) /\ ~BeingSaved(pid)) =>
              /\ SERVER_PID_FILE = pid
              /\ SERVER_PORT_FILE = procs[pid].port
    /\ Cardinality({pid \in Pids : ProcessExists(procs, pid)}) <= 1

====
